---------------------------- MODULE Spec2Model ----------------------------
(***************************************************************************)
(* Model of src/firebase_config.py: the FirebaseConfig object (app, db,    *)
(* is_initialized), the process-wide SDK registry firebase_admin._apps,    *)
(* the credential sources read by initialize_firebase, and the three       *)
(* remote collections written by create_sample_data.                       *)
(*                                                                         *)
(* Python values are modelled as strings: "None", "True", "False", "App",  *)
(* "Client".  Time is counted in ticks of ten minutes.  Sensor values are  *)
(* kept as integers in the unit of their rounding (tenths of a degree,     *)
(* hundredths and thousandths of mg/L).                                    *)
(***************************************************************************)
EXTENDS Integers, Sequences, FiniteSets, TLC

VARIABLES
    apps,             \* firebase_admin._apps is non-empty
    file_exists,      \* firebase-service-account.json exists beside the module
    env_key,          \* FIREBASE_SERVICE_ACCOUNT_KEY
    env_gac,          \* GOOGLE_APPLICATION_CREDENTIALS
    app,              \* self.app
    db,               \* self.db
    is_initialized,   \* self.is_initialized
    sensor_data,      \* collection 'sensor_data', in write order
    alerts,           \* collection 'alerts', in write order
    system_settings,  \* collection 'system_settings', in write order
    clock,            \* datetime.now(), in ticks
    last,             \* the last call: operation, inputs read, result
    everSucceeded     \* history: some initialize_firebase call returned True

vars == <<apps, file_exists, env_key, env_gac, app, db, is_initialized,
          sensor_data, alerts, system_settings, clock, last, everSucceeded>>

conn == <<app, db, is_initialized>>
store == <<sensor_data, alerts, system_settings>>

-----------------------------------------------------------------------------
(* Bounds and units *)

\* resolution of random.random(): draws are r / RandMod, r in 0..RandMod-1
RandMod == 1000

\* timedelta(hours=1), in ticks of ten minutes
TicksPerHour == 6

\* range(24): one reading per past hour
NumReadings == 24

\* seeds of the random generator at import
Seeds == {0, RandMod - 1}

\* how long one successful document write blocks the caller, in ticks
Latencies == {0, 1, TicksPerHour}

\* values of an environment variable: absent, set to the empty string,
\* set to text that is not JSON, set to well-formed JSON
EnvKeyValues == {"unset", "empty", "malformed", "valid"}
EnvGacValues == {"unset", "empty", "set"}

\* outcome of each SDK call of one initialize_firebase call (TRUE: it returns)
SdkOutcomes == [get_app : BOOLEAN, cert : BOOLEAN, init_app : BOOLEAN, client : BOOLEAN]

-----------------------------------------------------------------------------
(* initialize_firebase *)

\* truthiness of os.getenv(name): None and '' are falsy
Truthy(v) == v \notin {"unset", "empty"}

\* json.loads(os.getenv('FIREBASE_SERVICE_ACCOUNT_KEY'))
JsonLoadsOk(v) == v = "valid"

\* mutant: the priority of the file and of the environment key swapped
SelectStrategy_EnvFirst(env) ==
    IF env.apps THEN "reuse"
    ELSE IF Truthy(env.key) THEN "env_key"
    ELSE IF env.file THEN "file"
    ELSE IF Truthy(env.gac) THEN "adc"
    ELSE "none"

\* mutant: ambient credentials tried whether or not the variable is set
SelectStrategy_AlwaysAdc(env) ==
    IF env.apps THEN "reuse"
    ELSE IF env.file THEN "file"
    ELSE IF Truthy(env.key) THEN "env_key"
    ELSE "adc"

\* the cascade of conditions of initialize_firebase
SelectStrategy(env) ==
    IF env.apps THEN "reuse"
    ELSE IF env.file THEN "file"
    ELSE IF Truthy(env.key) THEN "env_key"
    ELSE IF Truthy(env.gac) THEN "adc"
    ELSE "none"

\* the environment variables os.getenv is called on before the strategy is
\* entered (the key is read again, and parsed, inside Method 2)
EnvReads(env) ==
    IF env.apps \/ env.file THEN {}
    ELSE IF Truthy(env.key) THEN {"FIREBASE_SERVICE_ACCOUNT_KEY"}
    ELSE {"FIREBASE_SERVICE_ACCOUNT_KEY", "GOOGLE_APPLICATION_CREDENTIALS"}

\* the result of a try body: the object, the registry, the value returned or
\* the exception thrown
Outcome(self, registry, ret, exc) ==
    [app |-> self.app, db |-> self.db, is_initialized |-> self.is_initialized,
     apps |-> registry, ret |-> ret, exc |-> exc]

\* branch "already initialized": get_app(), firestore.client(), flag, return
Reuse(self, sdk) ==
    IF ~sdk.get_app THEN Outcome(self, TRUE, "NoReturn", "ValueError")
    ELSE IF ~sdk.client
         THEN Outcome([self EXCEPT !.app = "App"], TRUE, "NoReturn", "SDKError")
         ELSE Outcome([app |-> "App", db |-> "Client", is_initialized |-> TRUE],
                      TRUE, "True", "none")

\* mutant: the branch returns True without setting the flag
Connect_NoFlag(self, sdk) ==
    IF ~sdk.cert THEN Outcome(self, FALSE, "NoReturn", "SDKError")
    ELSE IF ~sdk.init_app THEN Outcome(self, FALSE, "NoReturn", "SDKError")
    ELSE IF ~sdk.client
         THEN Outcome([self EXCEPT !.app = "App"], TRUE, "NoReturn", "SDKError")
         ELSE Outcome([app |-> "App", db |-> "Client",
                       is_initialized |-> self.is_initialized],
                      TRUE, "True", "none")

\* the three credential branches: credential object, initialize_app(cred),
\* firestore.client(), flag, return
Connect(self, sdk) ==
    IF ~sdk.cert THEN Outcome(self, FALSE, "NoReturn", "SDKError")
    ELSE IF ~sdk.init_app THEN Outcome(self, FALSE, "NoReturn", "SDKError")
    ELSE IF ~sdk.client
         THEN Outcome([self EXCEPT !.app = "App"], TRUE, "NoReturn", "SDKError")
         ELSE Outcome([app |-> "App", db |-> "Client", is_initialized |-> TRUE],
                      TRUE, "True", "none")

\* mutant: the text of the variable is handed to the SDK unparsed
EnvKeyBranch_NoParse(self, env, sdk) == Connect(self, sdk)

\* Method 2: json.loads of the variable, then the credential branch
EnvKeyBranch(self, env, sdk) ==
    IF ~JsonLoadsOk(env.key)
    THEN Outcome(self, FALSE, "NoReturn", "JSONDecodeError")
    ELSE Connect(self, sdk)

\* the body of the try block
TryBody(self, env, sdk) ==
    LET s == SelectStrategy(env) IN
    CASE s = "reuse"   -> Reuse(self, sdk)
      [] s = "file"    -> Connect(self, sdk)
      [] s = "env_key" -> EnvKeyBranch(self, env, sdk)
      [] s = "adc"     -> Connect(self, sdk)
      [] OTHER         -> Outcome(self, FALSE, "False", "none")

\* the classes `except Exception` catches among those the body throws
ExceptionSubclasses == {"ValueError", "JSONDecodeError", "SDKError"}

\* mutant: the handler is `except ValueError`
Caught_ValueErrorOnly(exc) == exc \in {"ValueError", "JSONDecodeError"}

Caught(exc) == exc \in ExceptionSubclasses

\* mutant: the handler also clears the flag
ExceptHandler_ClearsFlag(out) ==
    IF out.exc = "none" THEN [out EXCEPT !.raised = FALSE]
    ELSE IF Caught(out.exc)
         THEN [out EXCEPT !.ret = "False", !.raised = FALSE, !.is_initialized = FALSE]
         ELSE [out EXCEPT !.raised = TRUE]

\* except Exception as e: print(...); return False
ExceptHandler(out) ==
    IF out.exc = "none" THEN [out EXCEPT !.raised = FALSE]
    ELSE IF Caught(out.exc)
         THEN [out EXCEPT !.ret = "False", !.raised = FALSE]
         ELSE [out EXCEPT !.raised = TRUE]

\* one call of initialize_firebase on object `self` in environment `env`
initialize_firebase(self, env, sdk) ==
    ExceptHandler(TryBody(self, env, sdk) @@ [raised |-> FALSE])

\* what a call leaves in `last`
InitCall(env, out) ==
    [op |-> "initialize_firebase", ret |-> out.ret, raised |-> out.raised,
     exc |-> out.exc, apps_before |-> env.apps,
     strategy |-> SelectStrategy(env), reads |-> EnvReads(env),
     probes |-> 0, writes |-> 0, failed_at |-> -1]

Env == [apps |-> apps, file |-> file_exists, key |-> env_key, gac |-> env_gac]

\* FirebaseConfig(): the three fields are None, None, False and
\* initialize_firebase runs once
Init ==
    /\ file_exists \in BOOLEAN
    /\ env_key \in EnvKeyValues
    /\ env_gac \in EnvGacValues
    /\ sensor_data = <<>>
    /\ alerts = <<>>
    /\ system_settings = <<>>
    /\ clock = 0
    /\ \E before \in BOOLEAN, sdk \in SdkOutcomes :
         LET env == [apps |-> before, file |-> file_exists, key |-> env_key,
                     gac |-> env_gac]
             out == initialize_firebase(
                        [app |-> "None", db |-> "None", is_initialized |-> FALSE],
                        env, sdk)
         IN /\ apps = out.apps
            /\ app = out.app
            /\ db = out.db
            /\ is_initialized = out.is_initialized
            /\ last = InitCall(env, out)
            /\ everSucceeded = (out.ret = "True")

Initialize ==
    \E sdk \in SdkOutcomes :
      LET out == initialize_firebase(
                     [app |-> app, db |-> db, is_initialized |-> is_initialized],
                     Env, sdk)
      IN /\ apps' = out.apps
         /\ app' = out.app
         /\ db' = out.db
         /\ is_initialized' = out.is_initialized
         /\ last' = InitCall(Env, out)
         /\ everSucceeded' = (everSucceeded \/ out.ret = "True")
         /\ UNCHANGED <<file_exists, env_key, env_gac, store, clock>>

-----------------------------------------------------------------------------
(* is_available, get_firestore_client *)

\* return self.is_initialized and self.db is not None
is_available(self) == self.is_initialized /\ self.db # "None"

\* return self.db if self.is_available() else None
get_firestore_client(self) == IF is_available(self) THEN self.db ELSE "None"

Self == [app |-> app, db |-> db, is_initialized |-> is_initialized]

\* a call that reads the object and returns `ret`
PureCall(op, ret) ==
    [op |-> op, ret |-> ret, raised |-> FALSE, exc |-> "none",
     apps_before |-> apps, strategy |-> "n/a", reads |-> {},
     probes |-> 0, writes |-> 0, failed_at |-> -1]

IsAvailable ==
    /\ last' = PureCall("is_available", IF is_available(Self) THEN "True" ELSE "False")
    /\ UNCHANGED <<apps, file_exists, env_key, env_gac, conn, store, clock, everSucceeded>>

GetFirestoreClient ==
    /\ last' = PureCall("get_firestore_client", get_firestore_client(Self))
    /\ UNCHANGED <<apps, file_exists, env_key, env_gac, conn, store, clock, everSucceeded>>

-----------------------------------------------------------------------------
(* create_sample_data *)

\* the n-th number the generator seeded with `seed` draws, as r / RandMod
RandomDraw(seed, n) == (seed + n * 389) % RandMod

\* random.uniform(a, b) = a + (b - a) * random(), as a numerator over RandMod
Uniform(a, b, r) == a * RandMod + (b - a) * r

Pow10(d) == IF d = 1 THEN 10 ELSE IF d = 2 THEN 100 ELSE 1000

\* round(x, d) for x = num / RandMod, in units of 10^-d (ties to even)
Round(num, d) ==
    LET n == num * Pow10(d)
        q == n \div RandMod
        r == n % RandMod
    IN IF 2 * r < RandMod THEN q
       ELSE IF 2 * r > RandMod THEN q + 1
       ELSE IF q % 2 = 0 THEN q ELSE q + 1

\* timedelta(hours=h), timedelta(minutes=10), timedelta(days=d), in ticks
Hours(h) == h * TicksPerHour
TenMinutes == TicksPerHour \div 6
Days(d) == d * 24 * TicksPerHour

\* the dictionary of one loop iteration; now is datetime.now() of the iteration
sample_data(hours_ago, now, seed) ==
    [timestamp |-> now - Hours(hours_ago),
     temperature |-> Round(Uniform(20, 30, RandomDraw(seed, 3 * hours_ago)), 1),
     dissolved_oxygen |-> Round(Uniform(4, 12, RandomDraw(seed, 3 * hours_ago + 1)), 2),
     ammonia |-> Round(Uniform(0, 5, RandomDraw(seed, 3 * hours_ago + 2)), 3),
     location |-> "Tank A",
     sensor_id |-> "SENSOR_001"]

\* the list sample_alerts; value and threshold in tenths
sample_alerts(now) ==
    << [timestamp |-> now - TenMinutes, type |-> "warning",
        message |-> "Ammonia level approaching lower threshold",
        sensor_id |-> "SENSOR_001", value |-> 25, threshold |-> 50,
        acknowledged |-> FALSE],
       [timestamp |-> now - Hours(2), type |-> "info",
        message |-> "Temperature sensor calibration completed",
        sensor_id |-> "SENSOR_002", acknowledged |-> TRUE],
       [timestamp |-> now - Hours(4), type |-> "success",
        message |-> "Water quality parameters optimal",
        sensor_id |-> "SENSOR_001", acknowledged |-> TRUE] >>

\* the dictionary system_settings; ranges and thresholds in tenths
settings_document(now) ==
    [tank_settings |->
        [tank_a |-> [name |-> "Tank A - Main Production",
                     capacity_liters |-> 10000,
                     fish_species |-> "Atlantic Salmon",
                     fish_count |-> 500,
                     optimal_ammonia_range |-> <<0, 10>>,
                     optimal_temp_range |-> <<180, 240>>,
                     optimal_do_range |-> <<60, 120>>]],
     alert_thresholds |->
        [ammonia_min |-> 0, ammonia_max |-> 10, temp_min |-> 180,
         temp_max |-> 300, do_min |-> 40, do_max |-> 120],
     system_info |->
        [installation_date |-> "2024-01-15",
         last_maintenance |-> now - Days(3),
         next_maintenance |-> now + Days(27),
         firmware_version |-> "v2.1.3"],
     created_at |-> now]

\* number of documents one complete run writes
NumWrites == NumReadings + Len(sample_alerts(0)) + 1
NoFailure == NumWrites + 1

\* inputs of one call: whether the probe returns, which write attempt fails
\* (NoFailure: none), how long a write blocks, the generator's seed
SeedInputs ==
    [probe : BOOLEAN, failAt : 1..NoFailure, latency : Latencies, seed : Seeds]

\* collection.add(doc) as attempt number st.writes + 1 of the call: it
\* throws, or appends the document and returns after io.latency ticks
Add(st, coll, doc, io) ==
    IF st.exc # "none" THEN st
    ELSE IF io.failAt = st.writes + 1 THEN [st EXCEPT !.exc = "SDKError",
                                                     !.failed_at = st.writes + 1]
    ELSE [st EXCEPT ![coll] = Append(@, doc),
                    !.writes = @ + 1,
                    !.clock = @ + io.latency]

\* for hours_ago in range(24): ... sensor_collection.add(sample_data)
RECURSIVE SensorLoop(_, _, _)
SensorLoop(hours_ago, st, io) ==
    IF hours_ago = NumReadings \/ st.exc # "none" THEN st
    ELSE SensorLoop(hours_ago + 1,
                    Add(st, "sensor_data", sample_data(hours_ago, st.clock, io.seed), io),
                    io)

\* for alert in sample_alerts: alerts_collection.add(alert)
RECURSIVE AlertLoop(_, _, _, _)
AlertLoop(i, list, st, io) ==
    IF i > Len(list) \/ st.exc # "none" THEN st
    ELSE AlertLoop(i + 1, list, Add(st, "alerts", list[i], io), io)

AlertWrites(st, io) ==
    IF st.exc # "none" THEN st ELSE AlertLoop(1, sample_alerts(st.clock), st, io)

\* settings_collection.add(system_settings)
SettingsWrite(st, io) ==
    IF st.exc # "none" THEN st
    ELSE Add(st, "system_settings", settings_document(st.clock), io)

\* mutant: the alerts and the settings are written before the readings
SeedWrites_AlertsFirst(st, io) ==
    SensorLoop(0, SettingsWrite(AlertWrites(st, io), io), io)

\* the three write phases in the order of the source
SeedWrites(st, io) ==
    SettingsWrite(AlertWrites(SensorLoop(0, st, io), io), io)

\* sensor_collection.limit(1).get()
Limit(coll, n) == SubSeq(coll, 1, IF Len(coll) < n THEN Len(coll) ELSE n)

\* mutant: the guard compares with the probe's limit
SampleDataExists_OffByOne(existing_data) == Len(existing_data) > 1

\* if len(existing_data) > 0
SampleDataExists(existing_data) == Len(existing_data) > 0

\* the state a call works on
SeedState(st) ==
    [sensor_data |-> st.sensor_data, alerts |-> st.alerts,
     system_settings |-> st.system_settings, clock |-> st.clock,
     ret |-> "NoReturn", exc |-> "none", probes |-> 0, writes |-> 0,
     failed_at |-> -1]

\* mutant: the unavailable branch reports success
Unavailable_ReturnsTrue(st) == [SeedState(st) EXCEPT !.ret = "True"]

\* if not self.is_available(): print(...); return False
Unavailable(st) == [SeedState(st) EXCEPT !.ret = "False"]

\* the body of the try block of create_sample_data
SeedTryBody(self, st, io) ==
    IF self.db = "None"
    THEN [SeedState(st) EXCEPT !.exc = "AttributeError"]
    ELSE IF ~io.probe
    THEN [SeedState(st) EXCEPT !.exc = "SDKError", !.probes = 1, !.failed_at = 0]
    ELSE IF SampleDataExists(Limit(st.sensor_data, 1))
    THEN [SeedState(st) EXCEPT !.ret = "True", !.probes = 1]
    ELSE LET w == SeedWrites([SeedState(st) EXCEPT !.probes = 1], io)
         IN IF w.exc = "none" THEN [w EXCEPT !.ret = "True"] ELSE w

\* except Exception as e: print(...); return False
SeedExceptHandler(out) ==
    IF out.exc = "none" THEN out @@ [raised |-> FALSE]
    ELSE [out EXCEPT !.ret = "False"] @@ [raised |-> FALSE]

\* one call of create_sample_data
create_sample_data(self, st, io) ==
    IF ~is_available(self)
    THEN Unavailable(st) @@ [raised |-> FALSE]
    ELSE SeedExceptHandler(SeedTryBody(self, st, io))

Store ==
    [sensor_data |-> sensor_data, alerts |-> alerts,
     system_settings |-> system_settings, clock |-> clock]

\* the inputs a call can read, each distinct call drawn once: without a
\* connection nothing is read; past a failed probe or a non-empty collection
\* no write is attempted; a failed first write takes no time and stores no
\* drawn value
Idle(probe, failAt) ==
    [probe |-> probe, failAt |-> failAt, latency |-> 0, seed |-> 0]
InputsRead ==
    IF ~is_available(Self) THEN {Idle(TRUE, NoFailure)}
    ELSE IF sensor_data # <<>> THEN {Idle(p, NoFailure) : p \in BOOLEAN}
    ELSE {Idle(FALSE, NoFailure), Idle(TRUE, 1)}
         \cup {io \in SeedInputs : io.probe /\ io.failAt > 1}

CreateSampleData ==
    \E io \in InputsRead :
      /\ io \in SeedInputs
      /\ LET out == create_sample_data(Self, Store, io)
         IN /\ sensor_data' = out.sensor_data
            /\ alerts' = out.alerts
            /\ system_settings' = out.system_settings
            /\ clock' = out.clock
            /\ last' = [op |-> "create_sample_data", ret |-> out.ret,
                        raised |-> out.raised, exc |-> out.exc,
                        apps_before |-> apps, strategy |-> "n/a", reads |-> {},
                        probes |-> out.probes, writes |-> out.writes,
                        failed_at |-> out.failed_at]
            /\ UNCHANGED <<apps, file_exists, env_key, env_gac, conn, everSucceeded>>

-----------------------------------------------------------------------------
(* The surroundings of the module *)

\* what `last` holds once the surroundings have changed
NoCall ==
    [op |-> "none", ret |-> "NoReturn", raised |-> FALSE, exc |-> "none",
     apps_before |-> apps', strategy |-> "n/a", reads |-> {},
     probes |-> 0, writes |-> 0, failed_at |-> -1]

\* the credential file appears or disappears, or one variable is set,
\* changed or unset
EnvChange ==
    /\ \/ /\ file_exists' = ~file_exists
          /\ UNCHANGED <<env_key, env_gac>>
       \/ /\ env_key' \in EnvKeyValues \ {env_key}
          /\ UNCHANGED <<file_exists, env_gac>>
       \/ /\ env_gac' \in EnvGacValues \ {env_gac}
          /\ UNCHANGED <<file_exists, env_key>>
    /\ apps' = apps
    /\ last' = NoCall
    /\ UNCHANGED <<conn, store, clock, everSucceeded>>

\* another module of the process calls firebase_admin.initialize_app
OtherModuleInitializesApp ==
    /\ ~apps
    /\ apps' = TRUE
    /\ last' = NoCall
    /\ UNCHANGED <<file_exists, env_key, env_gac, conn, store, clock, everSucceeded>>

Next ==
    \/ Initialize
    \/ IsAvailable
    \/ GetFirestoreClient
    \/ CreateSampleData
    \/ EnvChange
    \/ OtherModuleInitializesApp

Spec == Init /\ [][Next]_vars

TypeOK ==
    /\ apps \in BOOLEAN
    /\ file_exists \in BOOLEAN
    /\ env_key \in EnvKeyValues
    /\ env_gac \in EnvGacValues
    /\ app \in {"None", "App"}
    /\ db \in {"None", "Client"}
    /\ is_initialized \in BOOLEAN
    /\ Len(sensor_data) <= NumReadings
    /\ clock \in Nat

-----------------------------------------------------------------------------
(* Properties *)

InitCalled == last.op = "initialize_firebase"
SeedCalled == last.op = "create_sample_data"

\* the environment the last initialize_firebase call ran in (the call leaves
\* the file and the variables alone; the registry it found is recorded)
CallEnv ==
    [apps |-> last.apps_before, file |-> file_exists, key |-> env_key, gac |-> env_gac]

KEY == "FIREBASE_SERVICE_ACCOUNT_KEY"
GAC == "GOOGLE_APPLICATION_CREDENTIALS"

(***************************************************************************)
(* C1, as stated: the strategy is the first match of: existing connection, *)
(* local file, FIREBASE_SERVICE_ACCOUNT_KEY set, GOOGLE_APPLICATION_       *)
(* CREDENTIALS set, else unconfigured; and whenever the local file exists  *)
(* and FIREBASE_SERVICE_ACCOUNT_KEY is set, the connection is attempted    *)
(* from the file and neither variable is read.                             *)
(***************************************************************************)
C1_AsStated ==
    InitCalled =>
      /\ last.strategy =
           (IF CallEnv.apps THEN "reuse"
            ELSE IF CallEnv.file THEN "file"
            ELSE IF CallEnv.key # "unset" THEN "env_key"
            ELSE IF CallEnv.gac # "unset" THEN "adc"
            ELSE "none")
      /\ (file_exists /\ env_key # "unset")
            => (last.strategy = "file" /\ last.reads = {})

(***************************************************************************)
(* C1, amended: the strategy is the first match of: existing connection,   *)
(* local file, FIREBASE_SERVICE_ACCOUNT_KEY set to a non-empty value,      *)
(* GOOGLE_APPLICATION_CREDENTIALS set to a non-empty value, else           *)
(* unconfigured.  Whenever no connection exists yet, the local file exists *)
(* and the key is set, the connection is attempted from the file and       *)
(* neither variable is read, whether or not the attempt succeeds.  A       *)
(* variable is read only once every earlier strategy has not matched.      *)
(***************************************************************************)
C1_PriorityOrder ==
    InitCalled =>
      /\ CallEnv.apps => (last.strategy = "reuse" /\ last.reads = {})
      /\ (~CallEnv.apps /\ file_exists)
            => (last.strategy = "file" /\ last.reads = {})
      /\ (~CallEnv.apps /\ ~file_exists /\ env_key \notin {"unset", "empty"})
            => (last.strategy = "env_key" /\ last.reads = {KEY})
      /\ (~CallEnv.apps /\ ~file_exists /\ env_key \in {"unset", "empty"}
            /\ env_gac \notin {"unset", "empty"})
            => (last.strategy = "adc" /\ last.reads = {KEY, GAC})
      /\ (~CallEnv.apps /\ ~file_exists /\ env_key \in {"unset", "empty"}
            /\ env_gac \in {"unset", "empty"})
            => (last.strategy = "none" /\ last.reads = {KEY, GAC}
                /\ last.ret = "False")
      /\ (last.strategy \in {"file", "env_key", "adc"} /\ last.exc = "none")
            => (last.ret = "True" /\ db = "Client")

\* the file and a well-formed key are both there, the file is tried and the
\* attempt fails
C1_Witness ==
    /\ InitCalled
    /\ ~CallEnv.apps /\ file_exists /\ env_key = "valid"
    /\ last.strategy = "file" /\ last.exc = "SDKError" /\ last.ret = "False"

(***************************************************************************)
(* C2: initialize_firebase never raises to its caller: whatever the        *)
(* registry, the file, the variables and the outcome of each SDK call, it  *)
(* returns True or False, and it returns False whenever a step of the      *)
(* chosen strategy threw.                                                  *)
(***************************************************************************)
C2_NeverRaises ==
    InitCalled =>
      /\ ~last.raised
      /\ last.ret \in {"True", "False"}
      /\ last.exc # "none" => last.ret = "False"
      /\ last.ret = "True" => (is_initialized /\ db = "Client")

\* the app was created and the client could not be: the call fails partway
C2_Witness ==
    /\ InitCalled
    /\ last.exc = "SDKError" /\ last.ret = "False"
    /\ app = "App" /\ db = "None"

(***************************************************************************)
(* C3, as stated: with no credential file and both variables unset,        *)
(* initialize_firebase returns False and is_available() is False.          *)
(***************************************************************************)
C3_AsStated ==
    (InitCalled /\ ~file_exists /\ env_key = "unset" /\ env_gac = "unset")
      => (last.ret = "False" /\ ~is_available(Self))

(***************************************************************************)
(* C3, amended: with no connection already initialized in the process, no  *)
(* credential file and both variables unset, initialize_firebase returns   *)
(* False and is_available() is False.                                      *)
(***************************************************************************)
C3_Unconfigured ==
    (InitCalled /\ ~CallEnv.apps /\ ~file_exists
        /\ env_key = "unset" /\ env_gac = "unset")
      => (last.ret = "False" /\ ~last.raised /\ ~is_available(Self))

C3_Witness ==
    /\ InitCalled /\ ~CallEnv.apps /\ ~file_exists
    /\ env_key = "unset" /\ env_gac = "unset"
    /\ last.strategy = "none" /\ last.ret = "False"

(***************************************************************************)
(* C4, as stated: whenever FIREBASE_SERVICE_ACCOUNT_KEY holds malformed    *)
(* JSON, initialize_firebase returns False and does not raise.             *)
(***************************************************************************)
C4_AsStated ==
    (InitCalled /\ env_key = "malformed")
      => (last.ret = "False" /\ ~last.raised)

(***************************************************************************)
(* C4, amended: whenever no connection is already initialized, there is no *)
(* local credential file and FIREBASE_SERVICE_ACCOUNT_KEY holds non-empty  *)
(* malformed JSON, initialize_firebase returns False and does not raise.   *)
(***************************************************************************)
C4_MalformedKey ==
    (InitCalled /\ ~CallEnv.apps /\ ~file_exists /\ env_key = "malformed")
      => (last.ret = "False" /\ ~last.raised /\ last.exc = "JSONDecodeError")

C4_Witness ==
    /\ InitCalled /\ ~CallEnv.apps /\ ~file_exists /\ env_key = "malformed"
    /\ env_gac = "set"
    /\ last.exc = "JSONDecodeError" /\ last.ret = "False"

(***************************************************************************)
(* C5: in every reachable state get_firestore_client() returns a handle    *)
(* other than None exactly when is_available() is True, and is_available() *)
(* is True exactly when an initialize_firebase call has returned True and  *)
(* the stored handle is not None.                                          *)
(***************************************************************************)
C5_ClientIffAvailable ==
    /\ (get_firestore_client(Self) # "None") <=> is_available(Self)
    /\ is_available(Self) <=> (everSucceeded /\ db # "None")
    /\ (last.op = "get_firestore_client")
          => (last.ret # "None" <=> is_available(Self))

\* a later initialize_firebase call failed partway and the handle is still
\* handed out
C5_Witness ==
    /\ last.op = "get_firestore_client" /\ last.ret = "Client"
    /\ everSucceeded /\ is_available(Self)

(***************************************************************************)
(* C6, as stated: of two create_sample_data calls in succession the second *)
(* one, whatever the first did, probes once, returns True and writes       *)
(* nothing.                                                                *)
(***************************************************************************)
C6_AsStated ==
    [][(SeedCalled /\ last'.op = "create_sample_data")
         => (last'.ret = "True" /\ last'.probes = 1 /\ last'.writes = 0
             /\ store' = store)]_vars

(***************************************************************************)
(* C6, amended: of two create_sample_data calls in succession, when the    *)
(* first wrote at least one sensor reading and the probe of the second     *)
(* does not fail, the second probes once, returns True and writes nothing. *)
(***************************************************************************)
C6_SecondCallSkips ==
    [][(SeedCalled /\ last.writes >= 1
          /\ last'.op = "create_sample_data" /\ last'.failed_at # 0)
         => (last'.ret = "True" /\ last'.probes = 1 /\ last'.writes = 0
             /\ ~last'.raised /\ store' = store)]_vars

\* a first call failed after some readings, a later call skipped
C6_Witness ==
    /\ SeedCalled /\ last.ret = "True" /\ last.probes = 1 /\ last.writes = 0
    /\ Len(sensor_data) \in 1..(NumReadings - 1)

(***************************************************************************)
(* C7: when the connection is not available create_sample_data returns     *)
(* False and does nothing: no probe, no write, and app, db and             *)
(* is_initialized are left as they were.                                   *)
(***************************************************************************)
C7_UnavailableNoOp ==
    [][(last'.op = "create_sample_data" /\ ~is_available(Self))
         => (last'.ret = "False" /\ ~last'.raised
             /\ last'.probes = 0 /\ last'.writes = 0
             /\ store' = store /\ conn' = conn /\ clock' = clock)]_vars

\* the call was made on an object whose initialization failed partway
C7_Witness ==
    /\ SeedCalled /\ ~is_available(Self) /\ app = "App"
    /\ last.ret = "False" /\ last.probes = 0

Timestamps == [i \in 1..Len(sensor_data) |-> sensor_data[i].timestamp]

(***************************************************************************)
(* C8: a run from an empty sensor_data collection that meets no failure    *)
(* produces exactly 24 readings whose timestamps strictly decrease in      *)
(* write order, exactly one hour apart, while the clock advances between   *)
(* the writes; each reading has 20 <= temperature <= 30,                   *)
(* 4 <= dissolved_oxygen <= 12 and 0 <= ammonia <= 5.                      *)
(***************************************************************************)
C8_AsStated ==
    (SeedCalled /\ last.writes = NumWrites) =>
      /\ Len(sensor_data) = 24
      /\ \A i \in 1..(Len(sensor_data) - 1) :
           /\ Timestamps[i] > Timestamps[i + 1]
           /\ Timestamps[i] - Timestamps[i + 1] = TicksPerHour
      /\ \A i \in 1..Len(sensor_data) :
           /\ sensor_data[i].temperature \in 200..300
           /\ sensor_data[i].dissolved_oxygen \in 400..1200
           /\ sensor_data[i].ammonia \in 0..5000

(***************************************************************************)
(* C9, as stated: after construction no operation changes app, db or       *)
(* is_initialized.                                                         *)
(***************************************************************************)
C9_AsStated == [][conn' = conn]_vars

(***************************************************************************)
(* C9, amended: after construction app, db and is_initialized are changed  *)
(* by initialize_firebase only (is_available, get_firestore_client and     *)
(* create_sample_data leave them alone); a later initialize_firebase call  *)
(* can move the object from failed to initialized, never back: the flag is *)
(* never cleared and a handle, once stored, is never replaced by another.  *)
(***************************************************************************)
C9_OnlyInitializeMutates ==
    [][/\ last'.op # "initialize_firebase" => conn' = conn
       /\ is_initialized => is_initialized'
       /\ db # "None" => db' = db
       /\ app # "None" => app' = app]_vars

\* a later initialize_firebase call failed on an initialized object, which
\* stays initialized
C9_Witness ==
    /\ InitCalled /\ last.exc # "none" /\ last.ret = "False"
    /\ is_initialized /\ db = "Client"

Min(a, b) == IF a < b THEN a ELSE b
Max(a, b) == IF a > b THEN a ELSE b
IsPrefix(s, t) == Len(s) <= Len(t) /\ SubSeq(t, 1, Len(s)) = s

(***************************************************************************)
(* C10: a run writes 24 readings, then 3 alerts, then 1 settings document, *)
(* with no rollback: when the probe or the k-th write fails the call       *)
(* returns False without raising and the store holds exactly the k-1       *)
(* writes before the failure; it returns True after writing only when all  *)
(* 28 writes succeeded.  So an alert exists only if all 24 readings were   *)
(* written, and the settings document only if all 3 alerts were.           *)
(***************************************************************************)
C10_OrderedNoRollback ==
    /\ [][(last'.op = "create_sample_data" /\ is_available(Self)) =>
            LET k == last'.writes IN
            /\ ~last'.raised /\ last'.ret \in {"True", "False"}
            /\ IsPrefix(sensor_data, sensor_data')
            /\ IsPrefix(alerts, alerts')
            /\ IsPrefix(system_settings, system_settings')
            /\ Len(sensor_data') = Len(sensor_data) + Min(k, NumReadings)
            /\ Len(alerts') = Len(alerts) + Min(Max(k - NumReadings, 0), 3)
            /\ Len(system_settings') =
                 Len(system_settings) + (IF k = NumWrites THEN 1 ELSE 0)
            /\ last'.failed_at = 0 => (last'.ret = "False" /\ k = 0)
            /\ last'.failed_at >= 1
                 => (last'.ret = "False" /\ k = last'.failed_at - 1)
            /\ (last'.ret = "True" /\ k > 0) => k = NumWrites
            /\ last'.ret = "False" => last'.failed_at >= 0]_vars
    /\ [](alerts # <<>> => Len(sensor_data) = NumReadings)
    /\ [](system_settings # <<>> => Len(alerts) = 3)

\* the 26th write (the second alert) failed
C10_Witness ==
    /\ SeedCalled /\ last.failed_at = 26 /\ last.ret = "False"
    /\ Len(sensor_data) = 24 /\ Len(alerts) = 1 /\ system_settings = <<>>

=============================================================================
